---- MODULE Spec2Model ----
(***************************************************************************)
(* A model of the multi-level retrieval backend: one tier's vector index   *)
(* (FaissStore, the ingest handler and its persisted artifacts), two       *)
(* ingest requests racing on one tier, the orchestrator's ingestion        *)
(* cascade, and the orchestrator's query routing.                          *)
(*                                                                         *)
(* Each part has its own specification over its own variables; the         *)
(* variables of the other parts stay at their initial values.              *)
(*   SpecTier   - one tier: ingest requests, process restarts (load)       *)
(*   SpecConc   - two ingest requests on one tier, step by step            *)
(*   SpecIngest - MultiLevelIngestTool._run behind the /ingest endpoint    *)
(*   SpecQuery  - run_query / decide_tool behind the /query endpoint       *)
(***************************************************************************)
EXTENDS Integers, Sequences, FiniteSets, TLC

(***************************************************************************)
(* Bounds of the model.                                                    *)
(***************************************************************************)
\* ingest requests one tier handles in a behaviour
MaxIngests == 2
\* process restarts of one tier in a behaviour
MaxRestarts == 1
\* files in one upload
MaxUpload == 2
\* documents in one ingestion call of the orchestrator
MaxBatch == 2
\* characters in the router model's answer
MaxContent == 2
\* the largest top_k of a search
MaxTopK == 2
\* pages of a document given to split_into_chunks
MaxPages == 2
\* characters on a page
MaxPageLen == 4
\* the largest chunk_size and chunk_overlap
MaxChunkSize == 3
\* ingestion calls the orchestrator receives one after the other
MaxCascades == 2

(***************************************************************************)
(* Program constants.                                                      *)
(***************************************************************************)
\* EmbeddingsClient.__init__(..., batch_size: int = 64)
BatchSize == 64

(***************************************************************************)
(* Small helpers.                                                          *)
(***************************************************************************)
Min(a, b) == IF a <= b THEN a ELSE b

Max(a, b) == IF a >= b THEN a ELSE b

SetMax(S) == CHOOSE x \in S : \A y \in S : y <= x

RECURSIVE SumSeq(_)
SumSeq(s) == IF s = <<>> THEN 0 ELSE Head(s) + SumSeq(Tail(s))

RECURSIVE Flatten(_)
Flatten(ss) == IF ss = <<>> THEN <<>> ELSE Head(ss) \o Flatten(Tail(ss))

\* s[:n] of Python for a sequence s and n >= 0
Prefix(s, n) == SubSeq(s, 1, Min(n, Len(s)))

(***************************************************************************)
(* Characters and Python's str(int) / int(str), as used for the JSON keys  *)
(* of the metadata artifact and for the router's answer.                   *)
(***************************************************************************)
Digits == <<"0", "1", "2", "3", "4", "5", "6", "7", "8", "9">>

IsDigit(c) == \E d \in 1..10 : Digits[d] = c

DigitVal(c) == (CHOOSE d \in 1..10 : Digits[d] = c) - 1

IsSpace(c) == c \in {" ", "\n"}

\* str(n) for n >= 0: the decimal digits, most significant first
RECURSIVE IntToStr(_)
IntToStr(n) ==
    IF n < 10 THEN <<Digits[n + 1]>>
    ELSE IntToStr(n \div 10) \o <<Digits[(n % 10) + 1]>>

\* s.strip(): leading and trailing whitespace removed
RECURSIVE LStrip(_)
LStrip(s) == IF s # <<>> /\ IsSpace(Head(s)) THEN LStrip(Tail(s)) ELSE s

RECURSIVE RStrip(_)
RStrip(s) ==
    IF s # <<>> /\ IsSpace(s[Len(s)]) THEN RStrip(SubSeq(s, 1, Len(s) - 1)) ELSE s

Strip(s) == LStrip(RStrip(s))

RECURSIVE DigitsVal(_)
DigitsVal(s) ==
    IF s = <<>> THEN 0 ELSE 10 * DigitsVal(SubSeq(s, 1, Len(s) - 1)) + DigitVal(s[Len(s)])

AllDigits(s) == s # <<>> /\ \A i \in 1..Len(s) : IsDigit(s[i])

\* int(s): whitespace around, an optional sign, then decimal digits; anything
\* else raises ValueError.  The result is <<value>>, or <<>> for ValueError.
PyInt(s) ==
    LET t == Strip(s)
    IN  IF t = <<>> THEN <<>>
        ELSE IF Head(t) \in {"-", "+"}
             THEN IF AllDigits(Tail(t))
                  THEN <<(IF Head(t) = "-" THEN -1 ELSE 1) * DigitsVal(Tail(t))>>
                  ELSE <<>>
             ELSE IF AllDigits(t) THEN <<DigitsVal(t)>> ELSE <<>>

(***************************************************************************)
(* The tier: documents, chunks, the embedding client.                      *)
(***************************************************************************)
\* the PDF files a client may upload, in the order sorted() gives them
FileOrder == <<"a.pdf", "b.pdf", "c.pdf">>

Files == {FileOrder[i] : i \in 1..Len(FileOrder)}

\* how many chunks split_into_chunks makes of each file: two small documents
\* and one that needs more than one embedding batch
FileChunks ==
    [f \in Files |->
        IF f = "a.pdf" THEN 1 ELSE IF f = "b.pdf" THEN 2 ELSE BatchSize + 1]

\* the files of one upload: at most MaxUpload of them
Uploads == {u \in SUBSET Files : u # {} /\ Cardinality(u) <= MaxUpload}

\* a chunk with its source_file, as ingest_pdfs returns it; part stands for
\* the chunk's text and pages
ChunksOfFile(f) == [k \in 1..FileChunks[f] |-> [source_file |-> f, part |-> k]]

\* ingest_pdfs(PDFS_DIR): the chunks of every PDF in the directory, files in
\* sorted order
IngestPdfs(dir) ==
    LET present == SelectSeq(FileOrder, LAMBDA f : f \in dir)
    IN  Flatten([i \in 1..Len(present) |-> ChunksOfFile(present[i])])

\* EmbeddingsClient.embed of level0: the return statement sits inside the
\* batch loop, so the rows of the first batch alone come back.  The vector
\* of a text is modelled by the chunk it was computed from.
Embed(texts) ==
    IF texts = <<>> THEN <<>> ELSE Prefix(texts, BatchSize)

(***************************************************************************)
(* FaissStore.  index is <<>> for None and <<vectors>> for an index        *)
(* holding the sequence vectors (position i-1 is FAISS id i-1).            *)
(***************************************************************************)
EmptyMeta == [i \in {} |-> 0]

\* FaissStore.__init__
NewStore == [index |-> <<>>, id_to_meta |-> EmptyMeta, next_id |-> 0]

Ntotal(index) == IF index = <<>> THEN 0 ELSE Len(index[1])

\* the FAISS ids an index holds
IndexIds(index) == 0..(Ntotal(index) - 1)

\* FaissStore.add
Add(s, embeddings, metadatas) ==
    LET start_id == s.next_id
        old == IF s.index = <<>> THEN <<>> ELSE s.index[1]
        written == {start_id + i - 1 : i \in 1..Len(metadatas)}
    IN  [index |-> <<old \o embeddings>>,
         id_to_meta |->
            [k \in (DOMAIN s.id_to_meta) \cup written |->
                IF k \in written THEN metadatas[k - start_id + 1]
                ELSE s.id_to_meta[k]],
         next_id |-> s.next_id + Len(embeddings)]

(***************************************************************************)
(* The persisted artifacts.  index_file is <<>> when the file is absent,   *)
(* else <<vectors>>.  meta_file is <<>> when absent, else <<payload>>; a   *)
(* payload that json.load cannot read has valid = FALSE.                   *)
(***************************************************************************)
NoDisk == [index_file |-> <<>>, meta_file |-> <<>>]

\* json.dump({"id_to_meta": ..., "next_id": ...}): the integer keys become
\* strings
JsonDump(s) ==
    [valid |-> TRUE,
     id_to_meta |->
        [k \in {IntToStr(i) : i \in DOMAIN s.id_to_meta} |->
            s.id_to_meta[DigitsVal(k)]],
     next_id |-> s.next_id]

CorruptPayload == [valid |-> FALSE, id_to_meta |-> EmptyMeta, next_id |-> 0]

\* the ways FaissStore.save can end
SaveOutcomes == {"ok", "index_write_fails", "meta_open_fails", "meta_dump_fails"}

\* FaissStore.save: the index file is written first (when there is an
\* index), then the metadata file is opened for writing and dumped into
Save(s, d, outcome) ==
    LET index_written == IF s.index # <<>> /\ outcome # "index_write_fails"
                         THEN s.index ELSE d.index_file
    IN  [index_file |-> index_written,
         meta_file |->
            CASE outcome = "ok" -> <<JsonDump(s)>>
              [] outcome = "meta_dump_fails" -> <<CorruptPayload>>
              [] OTHER -> d.meta_file]

\* FaissStore.load raises when the metadata file is not JSON
LoadRaises(d) == d.meta_file # <<>> /\ ~d.meta_file[1].valid

\* (a load that reads the index artifact alone)
LoadIndexOnly(d) ==
    [index |-> d.index_file, id_to_meta |-> EmptyMeta, next_id |-> Ntotal(d.index_file)]

\* FaissStore.load on a fresh store
Load(d) ==
    LET vectors == Ntotal(d.index_file)
    IN  IF d.meta_file # <<>>
        THEN LET payload == d.meta_file[1]
             IN  [index |-> d.index_file,
                  id_to_meta |->
                     [k \in {PyInt(key)[1] : key \in DOMAIN payload.id_to_meta} |->
                         payload.id_to_meta[IntToStr(k)]],
                  next_id |-> payload.next_id]
        ELSE [index |-> d.index_file, id_to_meta |-> EmptyMeta, next_id |-> vectors]

\* the queries of a search; the inner product of a query with the vector of
\* a chunk is modelled by an integer: one query is nearest to the last
\* parts of a file, the other to the first
Queries == {"q_last", "q_first"}

Score(q, v) == IF q = "q_last" THEN v.part ELSE 0 - v.part

TopKs == 1..MaxTopK

RECURSIVE BestId(_, _, _, _, _)
\* the id with the highest score among positions i..Len(vectors) that are
\* not in taken, best being the best before i (-1: none); of equal scores
\* the lower id stays
BestId(vectors, q, taken, i, best) ==
    IF i > Len(vectors) THEN best
    ELSE IF (i - 1) \in taken THEN BestId(vectors, q, taken, i + 1, best)
    ELSE IF best = -1 \/ Score(q, vectors[i]) > Score(q, vectors[best + 1])
         THEN BestId(vectors, q, taken, i + 1, i - 1)
         ELSE BestId(vectors, q, taken, i + 1, best)

RECURSIVE IndexSearch(_, _, _, _)
\* index.search(q, top_k): top_k ids by descending score, -1 where the
\* index has no further vector
IndexSearch(vectors, q, top_k, taken) ==
    IF top_k = 0 THEN <<>>
    ELSE LET b == BestId(vectors, q, taken, 1, -1)
         IN  <<b>> \o IndexSearch(vectors, q, top_k - 1, taken \cup {b})

\* (a search that keeps the ids without metadata)
SearchKeepAll(s, q, top_k) ==
    IF s.index = <<>> \/ Ntotal(s.index) = 0 THEN <<>>
    ELSE LET ids == SelectSeq(IndexSearch(s.index[1], q, top_k, {}),
                              LAMBDA idx : idx # -1)
         IN  [j \in 1..Len(ids) |->
                [score |-> Score(q, s.index[1][ids[j] + 1]), id |-> ids[j],
                 meta |-> IF ids[j] \in DOMAIN s.id_to_meta
                          THEN <<s.id_to_meta[ids[j]]>> ELSE <<>>]]

\* FaissStore.search: nothing from an index that is None or empty; else the
\* results of index.search without the -1 entries and without the ids
\* that id_to_meta has no (non-empty) record for.  The id of a hit is kept
\* beside its score and metadata.
Search(s, q, top_k) ==
    IF s.index = <<>> \/ Ntotal(s.index) = 0 THEN <<>>
    ELSE LET ids == SelectSeq(IndexSearch(s.index[1], q, top_k, {}),
                              LAMBDA idx : idx # -1 /\ idx \in DOMAIN s.id_to_meta)
         IN  [j \in 1..Len(ids) |->
                [score |-> Score(q, s.index[1][ids[j] + 1]), id |-> ids[j],
                 meta |-> <<s.id_to_meta[ids[j]]>>]]

\* the ways removing the two artifacts can end: os.remove may raise, and
\* the handler passes over it
RemoveOutcomes == {"ok", "index_remove_fails", "meta_remove_fails", "both_fail"}

\* force_rebuild: remove the artifacts that exist, then clear the store
ResetDisk(d, outcome) ==
    [index_file |-> IF outcome \in {"index_remove_fails", "both_fail"}
                    THEN d.index_file ELSE <<>>,
     meta_file |-> IF outcome \in {"meta_remove_fails", "both_fail"}
                   THEN d.meta_file ELSE <<>>]

ResetStore == [index |-> <<>>, id_to_meta |-> EmptyMeta, next_id |-> 0]

(***************************************************************************)
(* State.                                                                  *)
(***************************************************************************)
VARIABLES
    \* one tier (SpecTier, SpecConc)
    store,        \* the tier's FaissStore: index, id_to_meta, next_id
    disk,         \* the persisted artifacts: index_file, meta_file
    pdfs_dir,     \* the file names in PDFS_DIR
    up,           \* the tier process is serving (its start-up load did not raise)
    tier_op,      \* the last operation of the tier and how it ended
    tier_resp,    \* the last /ingest response of the tier
    add_log,      \* history: the add calls since the index was last empty
    from_empty,   \* history: the index was empty when add_log started
    ingests,      \* ingest requests handled so far
    restarts,     \* restarts so far
    reset_log,    \* history: how the removals went when the last request
                  \* reset the store and added nothing after it
    build_out,    \* history: how build_index of the last request ended
    search_out,  \* the search a /query request in progress has made
    \* two ingest requests on one tier (SpecConc)
    req,          \* per request: its position in the handler and its locals
    \* the orchestrator's ingestion (SpecIngest)
    orch,         \* position and locals of app.ingest / run_query / _run
    calls,        \* history: the requests and compressions made, in order
    ingest_http,  \* the response of the orchestrator's /ingest endpoint
    \* the orchestrator's query routing (SpecQuery)
    llm_ok,       \* agent.llm is not None (the Gemini client initialised)
    qry,          \* position and locals of app.query / run_query / decide_tool
    llm_calls,    \* history: calls to the router's generation service
    tier_queries, \* history: the tiers that were sent a /query request
    query_http,   \* the response of the orchestrator's /query endpoint
    \* one call of split_into_chunks (SpecChunk)
    split_in,     \* its arguments: pages, chunk_size, chunk_overlap
    split_out,    \* <<>> before the call, then <<what the call gave>>
    split_run,    \* the same call step by step: position and locals (SpecLoop)
    \* the three tiers behind the orchestrator's ingestion (SpecCascade)
    casc,         \* position and locals of _run, and the number of calls so far
    orch_pdfs,    \* the files in the orchestrator's PDFS_DIR
    tier_pdfs,    \* per directory of a tier: the files in it
    tier_index,   \* per index of a tier: the source_file values of its metadata
    ingest_posts, \* history: the tiers that received an /ingest request
    uploaded,     \* history: the files callers gave the orchestrator
    citations     \* <<>> or <<the source_file values of a detail-tier answer>>

tierVars ==
    <<store, disk, pdfs_dir, up, tier_op, tier_resp, add_log, from_empty,
      ingests, restarts, reset_log, build_out, search_out>>

concVars == <<req>>

orchVars == <<orch, calls, ingest_http>>

queryVars == <<llm_ok, qry, llm_calls, tier_queries, query_http>>

chunkVars == <<split_in, split_out, split_run>>

cascVars == <<casc, orch_pdfs, tier_pdfs, tier_index, ingest_posts, uploaded, citations>>

vars == <<tierVars, concVars, orchVars, queryVars, chunkVars, cascVars>>

(***************************************************************************)
(* The parts a specification does not use rest in these states.            *)
(***************************************************************************)
Reqs == {1, 2}

NoReq ==
    [pc |-> "idle", file |-> "", chunks |-> <<>>, vectors |-> <<>>,
     saw_none |-> FALSE, start_id |-> 0, read_next_id |-> 0]

ConcIdle == req = [r \in Reqs |-> NoReq]

NoOrch ==
    [pc |-> "idle", paths |-> <<>>, i |-> 0, extracted |-> <<>>,
     l1 |-> <<>>, l0 |-> <<>>, resp |-> <<>>, exc |-> <<>>, result |-> <<>>]

OrchIdle == orch = NoOrch /\ calls = <<>> /\ ingest_http = <<>>

NoQuery ==
    [pc |-> "idle", level |-> <<>>, content |-> <<>>, invoke_raised |-> FALSE,
     decision |-> <<>>, tool |-> <<>>]

QueryIdle ==
    /\ llm_ok = TRUE
    /\ qry = NoQuery
    /\ llm_calls = 0
    /\ tier_queries = <<>>
    /\ query_http = <<>>

NoSplit == [pages |-> <<>>, chunk_size |-> 1, chunk_overlap |-> 0]

\* no call of split_into_chunks is being stepped through
NoRun ==
    [pc |-> "idle", st |-> [chunks |-> <<>>, buffer |-> <<>>, current_len |-> 0],
     pages |-> <<>>, page_num |-> 0, tokens |-> <<>>, flushes |-> 0]

ChunkIdle == split_in = NoSplit /\ split_out = <<>> /\ split_run = NoRun

\* level0 is the digest tier, level1 the summary tier, level2 the detail tier
TierLevels == {0, 1, 2}

NoCasc == [pc |-> "idle", paths |-> <<>>, l1 |-> <<>>, l0 |-> <<>>, n |-> 0]

\* the services have started on empty directories and indexes
CascStart ==
    /\ casc = NoCasc
    /\ orch_pdfs = {}
    /\ tier_pdfs = [d \in TierLevels |-> {}]
    /\ tier_index = [x \in TierLevels |-> {}]
    /\ ingest_posts = <<>>
    /\ uploaded = {}
    /\ citations = <<>>

(***************************************************************************)
(* One tier, one request at a time (SpecTier).                             *)
(***************************************************************************)
NoResp == [status |-> 0, chunks_added |-> 0, vectors |-> 0]

\* app start: store = FaissStore(...); store.load() on storage without artifacts
TierStart ==
    /\ store = Load(NoDisk)
    /\ disk = NoDisk
    /\ pdfs_dir = {}
    /\ up = TRUE
    /\ tier_op = "start"
    /\ tier_resp = NoResp
    /\ add_log = <<>>
    /\ from_empty = TRUE
    /\ ingests = 0
    /\ restarts = 0
    /\ reset_log = <<>>
    /\ build_out = "none"
    /\ search_out = <<>>

\* (a build_index that adds the chunks whether or not the embedding call
\* came back)
BuildIndexStoreEager(s, chunks, embed_ok) ==
    IF chunks = <<>> THEN s ELSE Add(s, Embed(chunks), chunks)

\* RAGPipeline.build_index up to and including store.add: the store after it.
\* embed_ok = FALSE is the embedding call raising.
BuildIndexStore(s, chunks, embed_ok) ==
    IF chunks = <<>> \/ ~embed_ok THEN s
    ELSE Add(s, Embed(chunks), chunks)

\* RAGPipeline.build_index, store.save: the artifacts after it
BuildIndexDisk(s, d, chunks, embed_ok, save_outcome) ==
    IF chunks = <<>> \/ ~embed_ok THEN d
    ELSE Save(BuildIndexStore(s, chunks, embed_ok), d, save_outcome)

\* build_index raised (its except clause turns everything into RuntimeError)
BuildIndexRaises(chunks, embed_ok, save_outcome) ==
    chunks # <<>> /\ (~embed_ok \/ save_outcome # "ok")

\* where build_index ended: nothing to index, the embedding call raised,
\* store.save raised, or the index was saved
BuildOutcome(chunks, embed_ok, save_outcome) ==
    IF chunks = <<>> THEN "no_chunks"
    ELSE IF ~embed_ok THEN "embed_failed"
    ELSE IF save_outcome # "ok" THEN "save_failed"
    ELSE "saved"

\* POST /ingest of a tier: the uploaded files are copied into PDFS_DIR, the
\* store is reset on force_rebuild, every PDF of PDFS_DIR is chunked, and
\* the chunks are embedded, added and saved.
Ingest(files, force_rebuild, remove_outcome, embed_ok, save_outcome) ==
    LET dir == pdfs_dir \cup files
        s0 == IF force_rebuild THEN ResetStore ELSE store
        d0 == IF force_rebuild THEN ResetDisk(disk, remove_outcome) ELSE disk
        chunks == IngestPdfs(dir)
        s1 == BuildIndexStore(s0, chunks, embed_ok)
        d1 == BuildIndexDisk(s0, d0, chunks, embed_ok, save_outcome)
        raised == BuildIndexRaises(chunks, embed_ok, save_outcome)
        added == chunks # <<>> /\ embed_ok
    IN  /\ up
        /\ search_out = <<>>
        /\ ingests < MaxIngests
        /\ ingests' = ingests + 1
        /\ pdfs_dir' = dir
        /\ store' = s1
        /\ disk' = d1
        /\ tier_op' = IF raised THEN "ingest_failed" ELSE "ingest_ok"
        /\ tier_resp' =
              IF raised THEN [status |-> 500, chunks_added |-> 0, vectors |-> 0]
              ELSE [status |-> 200, chunks_added |-> Len(chunks),
                    vectors |-> Ntotal(s1.index)]
        /\ add_log' =
              (IF force_rebuild THEN <<>> ELSE add_log)
              \o (IF added
                  THEN <<[files |-> files,
                          forced |-> force_rebuild,
                          next_id_found |-> s0.next_id,
                          n_vec |-> Len(Embed(chunks)),
                          n_meta |-> Len(chunks),
                          keys_before |-> DOMAIN s0.id_to_meta,
                          keys_after |-> DOMAIN s1.id_to_meta]>>
                  ELSE <<>>)
        /\ from_empty' = (force_rebuild \/ from_empty)
        /\ reset_log' = IF force_rebuild /\ ~added THEN <<remove_outcome>> ELSE <<>>
        /\ build_out' = BuildOutcome(chunks, embed_ok, save_outcome)
        /\ UNCHANGED <<up, restarts, search_out, concVars, orchVars, queryVars, chunkVars, cascVars>>

\* the tier process starts again: a fresh FaissStore, then store.load()
Restart ==
    /\ search_out = <<>>
    /\ restarts < MaxRestarts
    /\ restarts' = restarts + 1
    /\ up' = ~LoadRaises(disk)
    /\ store' = IF LoadRaises(disk) THEN NewStore ELSE Load(disk)
    /\ tier_op' = IF LoadRaises(disk) THEN "load_failed" ELSE "load"
    /\ tier_resp' = NoResp
    /\ add_log' = <<>>
    /\ from_empty' = (~LoadRaises(disk) /\ Load(disk) = NewStore)
    /\ reset_log' = <<>>
    /\ build_out' = "none"
    /\ UNCHANGED <<disk, pdfs_dir, ingests, search_out, concVars, orchVars, queryVars, chunkVars, cascVars>>

\* POST /query of a tier, up to the hits of store.search: the question is
\* embedded and the store searched with the request's top_k
SearchRequest(q, top_k) ==
    /\ up
    /\ search_out = <<>>
    /\ search_out' = <<[q |-> q, top_k |-> top_k, hits |-> Search(store, q, top_k)]>>
    /\ UNCHANGED <<store, disk, pdfs_dir, up, tier_op, tier_resp, add_log,
                   from_empty, ingests, restarts, reset_log, build_out,
                   concVars, orchVars, queryVars, chunkVars, cascVars>>

\* the /query request ends
SearchRespond ==
    /\ search_out # <<>>
    /\ search_out' = <<>>
    /\ UNCHANGED <<store, disk, pdfs_dir, up, tier_op, tier_resp, add_log,
                   from_empty, ingests, restarts, reset_log, build_out,
                   concVars, orchVars, queryVars, chunkVars, cascVars>>

\* the outcome of a step that does not run is written "ok"
IngestRequest ==
    /\ up
    /\ search_out = <<>>
    /\ ingests < MaxIngests
    /\ \E files \in Uploads, force_rebuild \in BOOLEAN,
          remove_outcome \in RemoveOutcomes, embed_ok \in BOOLEAN,
          save_outcome \in SaveOutcomes :
           /\ ~force_rebuild => remove_outcome = "ok"
           /\ ~embed_ok => save_outcome = "ok"
           /\ Ingest(files, force_rebuild, remove_outcome, embed_ok, save_outcome)

TierNext == IngestRequest \/ Restart

TierInit == TierStart /\ ConcIdle /\ OrchIdle /\ QueryIdle /\ ChunkIdle /\ CascStart

SpecTier == TierInit /\ [][TierNext]_vars

(***************************************************************************)
(* One tier answering /query requests between its ingests (SpecSearch).    *)
(* The uploads fit one embedding batch.                                    *)
(***************************************************************************)
SmallUploads == {u \in Uploads : \A f \in u : FileChunks[f] <= BatchSize}

SmallIngestRequest ==
    /\ up
    /\ search_out = <<>>
    /\ ingests < MaxIngests
    /\ \E files \in SmallUploads, force_rebuild \in BOOLEAN,
          remove_outcome \in RemoveOutcomes, embed_ok \in BOOLEAN,
          save_outcome \in SaveOutcomes :
           /\ ~force_rebuild => remove_outcome = "ok"
           /\ ~embed_ok => save_outcome = "ok"
           /\ Ingest(files, force_rebuild, remove_outcome, embed_ok, save_outcome)

SearchNext ==
    \/ SmallIngestRequest
    \/ Restart
    \/ \E q \in Queries, top_k \in TopKs : SearchRequest(q, top_k)
    \/ SearchRespond

SpecSearch == TierInit /\ [][SearchNext]_vars

(***************************************************************************)
(* Two ingest requests on one tier (SpecConc).  The handler is a coroutine *)
(* that hands ingest_pdfs and build_index to worker threads; nothing locks *)
(* the store, so the statements of embed, add and save of two requests     *)
(* interleave.  The uploads fit one embedding batch.                       *)
(***************************************************************************)
SmallFiles == {f \in Files : FileChunks[f] <= BatchSize}

ConcInit ==
    /\ TierStart
    /\ req \in [Reqs -> {[NoReq EXCEPT !.pc = "upload", !.file = f] : f \in SmallFiles}]
    /\ OrchIdle
    /\ QueryIdle
    /\ ChunkIdle
    /\ CascStart

tierHistory ==
    <<up, tier_op, tier_resp, add_log, from_empty, ingests, restarts,
      reset_log, build_out, search_out>>

\* the upload is copied into PDFS_DIR
Upload(r) ==
    /\ req[r].pc = "upload"
    /\ pdfs_dir' = pdfs_dir \cup {req[r].file}
    /\ req' = [req EXCEPT ![r].pc = "read"]
    /\ UNCHANGED <<store, disk, tierHistory, orchVars, queryVars, chunkVars, cascVars>>

\* run_in_threadpool(ingest_pdfs, config.PDFS_DIR)
ReadPdfs(r) ==
    /\ req[r].pc = "read"
    /\ req' = [req EXCEPT ![r].pc = "embed", ![r].chunks = IngestPdfs(pdfs_dir)]
    /\ UNCHANGED <<store, disk, pdfs_dir, tierHistory, orchVars, queryVars, chunkVars, cascVars>>

\* build_index: vectors = self.embedder.embed(texts)
EmbedCall(r) ==
    /\ req[r].pc = "embed"
    /\ req' = [req EXCEPT ![r].pc = "ensure", ![r].vectors = Embed(req[r].chunks)]
    /\ UNCHANGED <<store, disk, pdfs_dir, tierHistory, orchVars, queryVars, chunkVars, cascVars>>

\* add, _ensure_index: if self.index is None
EnsureCheck(r) ==
    /\ req[r].pc = "ensure"
    /\ req' = [req EXCEPT ![r].pc = IF store.index = <<>> THEN "ensure_set" ELSE "start",
                          ![r].saw_none = (store.index = <<>>)]
    /\ UNCHANGED <<store, disk, pdfs_dir, tierHistory, orchVars, queryVars, chunkVars, cascVars>>

\* add, _ensure_index: self.index = faiss.IndexFlatIP(dim)
EnsureSet(r) ==
    /\ req[r].pc = "ensure_set"
    /\ store' = [store EXCEPT !.index = << <<>> >>]
    /\ req' = [req EXCEPT ![r].pc = "start"]
    /\ UNCHANGED <<disk, pdfs_dir, tierHistory, orchVars, queryVars, chunkVars, cascVars>>

\* add: start_id = self._next_id
ReadStart(r) ==
    /\ req[r].pc = "start"
    /\ req' = [req EXCEPT ![r].pc = "index_add", ![r].start_id = store.next_id]
    /\ UNCHANGED <<store, disk, pdfs_dir, tierHistory, orchVars, queryVars, chunkVars, cascVars>>

\* add: self.index.add(embeddings)
IndexAdd(r) ==
    /\ req[r].pc = "index_add"
    /\ store' = [store EXCEPT !.index = <<store.index[1] \o req[r].vectors>>]
    /\ req' = [req EXCEPT ![r].pc = "meta"]
    /\ UNCHANGED <<disk, pdfs_dir, tierHistory, orchVars, queryVars, chunkVars, cascVars>>

\* add: for i, meta in enumerate(metadatas): self.id_to_meta[start_id + i] = meta
MetaWrite(r) ==
    /\ req[r].pc = "meta"
    /\ LET written == {req[r].start_id + i - 1 : i \in 1..Len(req[r].chunks)}
       IN  store' = [store EXCEPT !.id_to_meta =
                [k \in (DOMAIN store.id_to_meta) \cup written |->
                    IF k \in written THEN req[r].chunks[k - req[r].start_id + 1]
                    ELSE store.id_to_meta[k]]]
    /\ req' = [req EXCEPT ![r].pc = "next_read"]
    /\ UNCHANGED <<disk, pdfs_dir, tierHistory, orchVars, queryVars, chunkVars, cascVars>>

\* add: self._next_id += embeddings.shape[0], the read
NextRead(r) ==
    /\ req[r].pc = "next_read"
    /\ req' = [req EXCEPT ![r].pc = "next_write", ![r].read_next_id = store.next_id]
    /\ UNCHANGED <<store, disk, pdfs_dir, tierHistory, orchVars, queryVars, chunkVars, cascVars>>

\* add: self._next_id += embeddings.shape[0], the write
NextWrite(r) ==
    /\ req[r].pc = "next_write"
    /\ store' = [store EXCEPT !.next_id = req[r].read_next_id + Len(req[r].vectors)]
    /\ req' = [req EXCEPT ![r].pc = "save_index"]
    /\ UNCHANGED <<disk, pdfs_dir, tierHistory, orchVars, queryVars, chunkVars, cascVars>>

\* save: faiss.write_index(self.index, self.index_path)
SaveIndex(r) ==
    /\ req[r].pc = "save_index"
    /\ disk' = [disk EXCEPT !.index_file = store.index]
    /\ req' = [req EXCEPT ![r].pc = "save_meta"]
    /\ UNCHANGED <<store, pdfs_dir, tierHistory, orchVars, queryVars, chunkVars, cascVars>>

\* save: json.dump of id_to_meta and next_id
SaveMeta(r) ==
    /\ req[r].pc = "save_meta"
    /\ disk' = [disk EXCEPT !.meta_file = <<JsonDump(store)>>]
    /\ req' = [req EXCEPT ![r].pc = "done"]
    /\ UNCHANGED <<store, pdfs_dir, tierHistory, orchVars, queryVars, chunkVars, cascVars>>

ConcNext ==
    \E r \in Reqs :
        \/ Upload(r)
        \/ ReadPdfs(r)
        \/ EmbedCall(r)
        \/ EnsureCheck(r)
        \/ EnsureSet(r)
        \/ ReadStart(r)
        \/ IndexAdd(r)
        \/ MetaWrite(r)
        \/ NextRead(r)
        \/ NextWrite(r)
        \/ SaveIndex(r)
        \/ SaveMeta(r)

SpecConc == ConcInit /\ [][ConcNext]_vars

(***************************************************************************)
(* The orchestrator's ingestion (SpecIngest): POST /ingest of the          *)
(* orchestrator, run_query(action="ingest"), MultiLevelIngestTool._run.    *)
(* Every call that leaves the process (a tier request, the generation      *)
(* service, the PDF library) is one step and may raise.                    *)
(***************************************************************************)
DocOrder == <<"d1.pdf", "d2.pdf", "d3.pdf">>

Docs == {DocOrder[i] : i \in 1..Len(DocOrder)}

\* len(pdf_to_text(doc)) of each document
DocLen == [d \in Docs |-> IF d = "d1.pdf" THEN 4 ELSE IF d = "d2.pdf" THEN 10 ELSE 13]

\* the lengths of the texts the generation service may answer with
GenLens == {0, 2, 5}

\* the uploads of one call: up to MaxBatch different documents, in any order
RECURSIVE SeqsUpTo(_, _)
SeqsUpTo(S, n) ==
    IF n = 0 THEN {<<>>}
    ELSE LET shorter == SeqsUpTo(S, n - 1)
         IN  shorter \cup {Append(q, x) : q \in shorter, x \in S}

NoRepeat(q) == \A i, j \in 1..Len(q) : i # j => q[i] # q[j]

Batches == {q \in SeqsUpTo(Docs, MaxBatch) : q # <<>> /\ NoRepeat(q)}

\* LEVEL2_TO_1_RATIO = 0.2 and LEVEL1_TO_0_RATIO = 0.5 as fractions
Ratio2To1 == <<1, 5>>

Ratio1To0 == <<1, 2>>

\* int(char_count * ratio): the product, truncated
TargetChars(char_count, ratio) == (char_count * ratio[1]) \div ratio[2]

\* pdf_to_text(pdf_path), when it does not raise
ExtractedText(path) == [kind |-> "pdf", doc |-> path, len |-> DocLen[path]]

\* Summarizer.compress, when the generation call does not raise: whatever
\* the service answered (gen_len characters), stripped; target_chars only
\* goes into the prompt
Compress(text, target_chars, level_from, level_to, gen_len) ==
    [kind |-> level_to, doc |-> text.doc, len |-> gen_len]

\* the summary file names of _run
SummaryL1Pdf(path) == [kind |-> "summary_l2_to_l1", of |-> path]

SummaryL0Pdf(summary_l1_pdf) == [kind |-> "summary_l1_to_l0", of |-> summary_l1_pdf.of]

\* the exceptions of the ingestion path; names_level is the tier whose URL
\* the message carries, if any
RequestFailed(level) == [msg |-> "Request to <url>/ingest failed", names_level |-> <<level>>]

OtherFailure(what) == [msg |-> what, names_level |-> <<>>]

\* (a variant that passes over a failed request)
AfterPostSwallow(ok, next_pc) == next_pc

\* post_to_level raises on any failure; _run catches nothing, so the stage
\* after a request is reached only when the request returned
AfterPost(ok, next_pc) == IF ok THEN next_pc ELSE "raised"

\* (a variant that compresses the first level1 summary in every round)
Level0InputFirst(o) == o.l1[1].text

\* the text _run compresses for level0 in round i: the level1 summary text
\* kept beside the summary PDF
Level0Input(o) == o.l1[o.i].text

OrchInit == TierStart /\ ConcIdle /\ OrchIdle /\ QueryIdle /\ ChunkIdle /\ CascStart

notOrch == <<tierVars, concVars, queryVars, chunkVars, cascVars>>

Fail(o, e) == [o EXCEPT !.pc = "raised", !.exc = <<e>>]

\* app.ingest: save_uploaded_pdfs, then run_query(pdf_paths, action="ingest")
OrchReceive(paths, ok) ==
    /\ orch.pc = "idle"
    /\ IF ok
       THEN /\ orch' = [orch EXCEPT !.pc = "client", !.paths = paths]
            /\ ingest_http' = ingest_http
       ELSE /\ orch' = [orch EXCEPT !.pc = "done", !.paths = paths,
                                    !.exc = <<OtherFailure("Failed to save <file>")>>]
            /\ ingest_http' = <<[status |-> 500, message |-> "Failed to save <file>",
                                 result |-> <<>>]>>
    /\ UNCHANGED <<calls, notOrch>>

\* _run: GeminiClient(...) raises without an API key
MakeClient(ok) ==
    /\ orch.pc = "client"
    /\ orch' = IF ok THEN [orch EXCEPT !.pc = "post_l2"]
               ELSE Fail(orch, OtherFailure("GOOGLE_API_KEY not set."))
    /\ UNCHANGED <<calls, ingest_http, notOrch>>

\* _run step 1: the PDFs go to level2
PostLevel2(ok) ==
    /\ orch.pc = "post_l2"
    /\ calls' = Append(calls, [kind |-> "post", level |-> 2, ok |-> ok,
                               files |-> orch.paths])
    /\ orch' = IF ok
               THEN [orch EXCEPT !.pc = AfterPost(ok, "extract"), !.i = 1,
                                 !.resp = Append(orch.resp, 2)]
               ELSE [Fail(orch, RequestFailed(2)) EXCEPT !.pc = AfterPost(ok, "extract"),
                                                         !.i = 1]
    /\ UNCHANGED <<ingest_http, notOrch>>

\* _run step 2: extracted_text = pdf_to_text(pdf_path)
Extract(ok) ==
    /\ orch.pc = "extract"
    /\ calls' = Append(calls, [kind |-> "pdf_to_text", path |-> orch.paths[orch.i],
                               ok |-> ok])
    /\ orch' = IF ok
               THEN [orch EXCEPT !.pc = "compress_l1",
                                 !.extracted = <<ExtractedText(orch.paths[orch.i])>>]
               ELSE Fail(orch, OtherFailure("Failed to parse <pdf_path>"))
    /\ UNCHANGED <<ingest_http, notOrch>>

\* _run step 2: summarizer.compress(extracted_text, target, "level2", "level1"),
\* then text_to_pdf of the summary
CompressL1(ok, gen_len, pdf_ok) ==
    /\ orch.pc = "compress_l1"
    /\ LET text == orch.extracted[1]
           target == TargetChars(text.len, Ratio2To1)
           summary == Compress(text, target, "level2", "level1", gen_len)
           pdf == SummaryL1Pdf(orch.paths[orch.i])
       IN  /\ calls' = Append(calls,
                 [kind |-> "compress", from |-> "level2", to |-> "level1",
                  input |-> text, target |-> target, ok |-> ok,
                  output |-> IF ok THEN <<summary>> ELSE <<>>])
                 \o (IF ok THEN <<[kind |-> "text_to_pdf", path |-> pdf, ok |-> pdf_ok]>>
                     ELSE <<>>)
           /\ orch' =
                 IF ~ok THEN Fail(orch, OtherFailure("Text compression failed"))
                 ELSE IF ~pdf_ok THEN Fail(orch, OtherFailure("PDF generation failed"))
                 ELSE [orch EXCEPT
                         !.l1 = Append(orch.l1, [pdf |-> pdf, text |-> summary]),
                         !.i = IF orch.i < Len(orch.paths) THEN orch.i + 1 ELSE 1,
                         !.pc = IF orch.i < Len(orch.paths) THEN "extract" ELSE "post_l1"]
    /\ UNCHANGED <<ingest_http, notOrch>>

\* _run step 3: the level1 summaries go to level1
PostLevel1(ok) ==
    /\ orch.pc = "post_l1"
    /\ calls' = Append(calls, [kind |-> "post", level |-> 1, ok |-> ok,
                               files |-> [k \in 1..Len(orch.l1) |-> orch.l1[k].pdf]])
    /\ orch' = IF ok
               THEN [orch EXCEPT !.pc = AfterPost(ok, "compress_l0"), !.i = 1,
                                 !.resp = Append(orch.resp, 1)]
               ELSE [Fail(orch, RequestFailed(1)) EXCEPT !.pc = AfterPost(ok, "compress_l0"),
                                                         !.i = 1]
    /\ UNCHANGED <<ingest_http, notOrch>>

\* _run step 4: summarizer.compress(summary_l1_text, target, "level1", "level0"),
\* then text_to_pdf of the summary
CompressL0(ok, gen_len, pdf_ok) ==
    /\ orch.pc = "compress_l0"
    /\ LET text == Level0Input(orch)
           target == TargetChars(text.len, Ratio1To0)
           summary == Compress(text, target, "level1", "level0", gen_len)
           pdf == SummaryL0Pdf(orch.l1[orch.i].pdf)
       IN  /\ calls' = Append(calls,
                 [kind |-> "compress", from |-> "level1", to |-> "level0",
                  input |-> text, target |-> target, ok |-> ok,
                  output |-> IF ok THEN <<summary>> ELSE <<>>])
                 \o (IF ok THEN <<[kind |-> "text_to_pdf", path |-> pdf, ok |-> pdf_ok]>>
                     ELSE <<>>)
           /\ orch' =
                 IF ~ok THEN Fail(orch, OtherFailure("Text compression failed"))
                 ELSE IF ~pdf_ok THEN Fail(orch, OtherFailure("PDF generation failed"))
                 ELSE [orch EXCEPT
                         !.l0 = Append(orch.l0, pdf),
                         !.i = IF orch.i < Len(orch.l1) THEN orch.i + 1 ELSE 1,
                         !.pc = IF orch.i < Len(orch.l1) THEN "compress_l0" ELSE "post_l0"]
    /\ UNCHANGED <<ingest_http, notOrch>>

\* _run step 5: the level0 summaries go to level0; _run returns the three
\* responses
PostLevel0(ok) ==
    /\ orch.pc = "post_l0"
    /\ calls' = Append(calls, [kind |-> "post", level |-> 0, ok |-> ok,
                               files |-> orch.l0])
    /\ orch' = IF ok
               THEN [orch EXCEPT !.pc = AfterPost(ok, "returned"),
                                 !.resp = Append(orch.resp, 0)]
               ELSE [Fail(orch, RequestFailed(0)) EXCEPT !.pc = AfterPost(ok, "returned")]
    /\ UNCHANGED <<ingest_http, notOrch>>

\* run_query returns _run's report, or catches its exception and returns
\* the text "Ingestion failed: <e>"; app.ingest wraps either in its
\* "Ingestion completed via agent" answer
RunQueryResult(o) ==
    IF o.pc = "raised"
    THEN [kind |-> "text", text |-> "Ingestion failed: <e>", e |-> o.exc, levels |-> <<>>]
    ELSE [kind |-> "report", text |-> "", e |-> <<>>, levels |-> o.resp]

OrchRespond ==
    /\ orch.pc \in {"raised", "returned"}
    /\ orch' = [orch EXCEPT !.pc = "done", !.result = <<RunQueryResult(orch)>>]
    /\ ingest_http' = <<[status |-> 200, message |-> "Ingestion completed via agent",
                         result |-> <<RunQueryResult(orch)>>]>>
    /\ UNCHANGED <<calls, notOrch>>

OrchNext ==
    \/ \E paths \in Batches, ok \in BOOLEAN : OrchReceive(paths, ok)
    \/ \E ok \in BOOLEAN : MakeClient(ok)
    \/ \E ok \in BOOLEAN : PostLevel2(ok)
    \/ \E ok \in BOOLEAN : Extract(ok)
    \/ \E ok \in BOOLEAN, gen_len \in GenLens, pdf_ok \in BOOLEAN :
          CompressL1(ok, gen_len, pdf_ok)
    \/ \E ok \in BOOLEAN : PostLevel1(ok)
    \/ \E ok \in BOOLEAN, gen_len \in GenLens, pdf_ok \in BOOLEAN :
          CompressL0(ok, gen_len, pdf_ok)
    \/ \E ok \in BOOLEAN : PostLevel0(ok)
    \/ OrchRespond

SpecIngest == OrchInit /\ [][OrchNext]_vars

(***************************************************************************)
(* The three tiers behind the orchestrator (SpecCascade): ingestion calls  *)
(* one after the other, each tier's PDFS_DIR and the source_file values of *)
(* its index, and detail-tier queries.  A file is named by a record: an    *)
(* upload, or a summary (SummaryL1Pdf, SummaryL0Pdf) of an upload.         *)
(***************************************************************************)
\* os.path.basename of an uploaded document
UploadName(path) == [kind |-> "upload", of |-> path]

\* each tier service has a PDFS_DIR and an index of its own
PdfsDirOf(tier) == tier

IndexOf(tier) == tier

\* (a variant that sends every step's files to the detail tier)
LevelUrlDetail(level) == 2

\* the service behind config.LEVEL<level>_URL, which _run posts the files
\* of its step for that level to
LevelUrl(level) == level

\* the files _run posts in the step for a level: the uploaded PDFs, the
\* level1 summaries, the level0 summaries
PostedFiles(c, level) ==
    IF level = 2 THEN {UploadName(c.paths[k]) : k \in 1..Len(c.paths)}
    ELSE IF level = 1 THEN {c.l1[k] : k \in 1..Len(c.l1)}
    ELSE {c.l0[k] : k \in 1..Len(c.l0)}

\* the tier's ingest handler copies the uploads into its PDFS_DIR
TierIngestDir(dir, files) == dir \cup files

\* ingest_pdfs: every PDF of the directory is chunked, each chunk with
\* source_file = the file's name
SourceFiles(dir) == dir

PostPc(level) == IF level = 2 THEN "post_l2" ELSE IF level = 1 THEN "post_l1" ELSE "post_l0"

AfterPostPc(level) == IF level = 2 THEN "sum_l1" ELSE IF level = 1 THEN "sum_l0" ELSE "idle"

PostOutcomes == {"ok", "tier_failed", "unreachable"}

CascInit == TierStart /\ ConcIdle /\ OrchIdle /\ QueryIdle /\ ChunkIdle /\ CascStart

notCasc == <<tierVars, concVars, orchVars, queryVars, chunkVars>>

\* app.ingest: the uploads are saved into the orchestrator's directory and
\* _run starts with fresh locals
CascReceive(paths) ==
    /\ casc.pc = "idle"
    /\ casc.n < MaxCascades
    /\ casc' = [pc |-> "post_l2", paths |-> paths, l1 |-> <<>>, l0 |-> <<>>,
                n |-> casc.n + 1]
    /\ orch_pdfs' = orch_pdfs \cup {UploadName(paths[k]) : k \in 1..Len(paths)}
    /\ uploaded' = uploaded \cup {UploadName(paths[k]) : k \in 1..Len(paths)}
    /\ UNCHANGED <<tier_pdfs, tier_index, ingest_posts, citations, notCasc>>

\* post_to_level(LEVEL<level>_URL, "/ingest", files) and the handler of the
\* tier that receives it: the files are copied into the tier's directory;
\* if chunking, embedding, add and save go through, the chunks of every
\* PDF of the directory are in the tier's index.  A request that fails
\* ends _run.
CascPost(level, outcome) ==
    /\ casc.pc = PostPc(level)
    /\ LET tier == LevelUrl(level)
           dir == TierIngestDir(tier_pdfs[PdfsDirOf(tier)], PostedFiles(casc, level))
       IN  /\ tier_pdfs' = IF outcome = "unreachable" THEN tier_pdfs
                           ELSE [tier_pdfs EXCEPT ![PdfsDirOf(tier)] = dir]
           /\ tier_index' = IF outcome = "ok"
                            THEN [tier_index EXCEPT ![IndexOf(tier)] = @ \cup SourceFiles(dir)]
                            ELSE tier_index
           /\ ingest_posts' = IF outcome = "unreachable" THEN ingest_posts
                              ELSE Append(ingest_posts, tier)
    /\ casc' = [casc EXCEPT !.pc = IF outcome = "ok" THEN AfterPostPc(level) ELSE "idle"]
    /\ UNCHANGED <<orch_pdfs, uploaded, citations, notCasc>>

\* _run step 2: a level1 summary PDF is written into the orchestrator's
\* directory for each uploaded PDF; written < Len(paths) is a compression
\* or PDF step raising after that many
CascSummariseL1(written) ==
    /\ casc.pc = "sum_l1"
    /\ LET pdfs == [k \in 1..written |-> SummaryL1Pdf(casc.paths[k])]
       IN  /\ orch_pdfs' = orch_pdfs \cup {pdfs[k] : k \in 1..written}
           /\ casc' = IF written = Len(casc.paths)
                      THEN [casc EXCEPT !.pc = "post_l1", !.l1 = pdfs]
                      ELSE [casc EXCEPT !.pc = "idle"]
    /\ UNCHANGED <<tier_pdfs, tier_index, ingest_posts, uploaded, citations, notCasc>>

\* _run step 4: a level0 summary PDF for each level1 summary
CascSummariseL0(written) ==
    /\ casc.pc = "sum_l0"
    /\ LET pdfs == [k \in 1..written |-> SummaryL0Pdf(casc.l1[k])]
       IN  /\ orch_pdfs' = orch_pdfs \cup {pdfs[k] : k \in 1..written}
           /\ casc' = IF written = Len(casc.l1)
                      THEN [casc EXCEPT !.pc = "post_l0", !.l0 = pdfs]
                      ELSE [casc EXCEPT !.pc = "idle"]
    /\ UNCHANGED <<tier_pdfs, tier_index, ingest_posts, uploaded, citations, notCasc>>

\* a query with level=2: the detail tier answers with citations whose
\* source_file values are those of the metadata of the hits
DetailQuery(hits) ==
    /\ casc.pc = "idle"
    /\ hits \subseteq tier_index[IndexOf(LevelUrl(2))]
    /\ citations' = <<hits>>
    /\ UNCHANGED <<casc, orch_pdfs, tier_pdfs, tier_index, ingest_posts, uploaded, notCasc>>

CascNext ==
    \/ \E paths \in Batches : CascReceive(paths)
    \/ \E level \in TierLevels, outcome \in PostOutcomes : CascPost(level, outcome)
    \/ \E written \in 0..MaxBatch : written <= Len(casc.paths) /\ CascSummariseL1(written)
    \/ \E written \in 0..MaxBatch : written <= Len(casc.l1) /\ CascSummariseL0(written)
    \/ \E hits \in SUBSET tier_index[IndexOf(LevelUrl(2))] : DetailQuery(hits)

SpecCascade == CascInit /\ [][CascNext]_vars

(***************************************************************************)
(* The orchestrator's query routing (SpecQuery): GET/POST /query of the    *)
(* orchestrator, run_query, decide_tool, QueryTool._run.                   *)
(***************************************************************************)
\* the characters the router model's answer is made of
RouterChars == {"0", "1", "2", "3", "7", " ", "\n", "-", "Q"}

Contents == SeqsUpTo(RouterChars, MaxContent)

\* the level parameter of /query: absent (<<>>) or an integer
Levels == {<<>>} \cup {<<n>> : n \in -1..3}

\* tool_map = {0: QueryLevel0, 1: QueryLevel1, 2: QueryLevel2}; .get(level)
\* gives the tool of that tier or None (<<>>)
ToolMapGet(level) == IF level \in {0, 1, 2} THEN <<level>> ELSE <<>>

\* (a variant that asks the model again after an answer that is no integer)
AfterParseRetry(parsed) ==
    IF parsed = <<>> THEN [pc |-> "decide", decision |-> <<>>]
    ELSE [pc |-> "post",
          decision |-> <<[raised |-> FALSE,
                          tool |-> IF parsed[1] \in {0, 1, 2} THEN parsed[1] ELSE 1]>>]

\* decide_tool after llm.invoke: tool_name = int(decision.content.strip())
\* raises ValueError, or the value is kept when it is 0, 1 or 2 and
\* replaced by 1 otherwise
AfterParse(parsed) ==
    IF parsed = <<>> THEN [pc |-> "decide_raised", decision |-> <<[raised |-> TRUE, tool |-> 1]>>]
    ELSE [pc |-> "post",
          decision |-> <<[raised |-> FALSE,
                          tool |-> IF parsed[1] \in {0, 1, 2} THEN parsed[1] ELSE 1]>>]

\* the module-level try around ChatGoogleGenerativeAI(...) leaves llm None
\* when the client cannot be built; agent_executor is None exactly then
QueryInit ==
    /\ TierStart /\ ConcIdle /\ OrchIdle /\ ChunkIdle /\ CascStart
    /\ llm_ok \in BOOLEAN
    /\ qry = NoQuery
    /\ llm_calls = 0
    /\ tier_queries = <<>>
    /\ query_http = <<>>

notQuery == <<tierVars, concVars, orchVars, chunkVars, cascVars>>

\* app.query and run_query up to the choice of the tool
QueryReceive(level) ==
    /\ qry.pc = "idle"
    /\ IF ~llm_ok
       THEN /\ qry' = [qry EXCEPT !.pc = "done", !.level = level]
            /\ query_http' = <<[status |-> 200,
                                answer |-> "Error: Agent Executor is not available.",
                                text_of |-> {}, tier |-> <<>>]>>
       ELSE IF level # <<>>
       THEN IF ToolMapGet(level[1]) = <<>>
            THEN /\ qry' = [qry EXCEPT !.pc = "done", !.level = level]
                 /\ query_http' = <<[status |-> 200,
                                     answer |-> "Error: Invalid level specified.",
                                     text_of |-> {}, tier |-> <<>>]>>
            ELSE /\ qry' = [qry EXCEPT !.pc = "post", !.level = level,
                                       !.tool = ToolMapGet(level[1])]
                 /\ query_http' = query_http
       ELSE /\ qry' = [qry EXCEPT !.pc = "decide", !.level = level]
            /\ query_http' = query_http
    /\ UNCHANGED <<llm_ok, llm_calls, tier_queries, notQuery>>

\* decide_tool: without an llm the answer is 1; else one llm.invoke, which
\* raises or returns a message
DecideInvoke(raises, content) ==
    /\ qry.pc = "decide"
    /\ raises => content = <<>>
    /\ IF ~llm_ok
       THEN /\ qry' = [qry EXCEPT !.pc = "post",
                                  !.decision = <<[raised |-> FALSE, tool |-> 1]>>,
                                  !.tool = ToolMapGet(1)]
            /\ llm_calls' = llm_calls
       ELSE /\ llm_calls' = llm_calls + 1
            /\ qry' = IF raises
                      THEN [qry EXCEPT !.pc = "decide_raised", !.invoke_raised = TRUE,
                                       !.decision = <<[raised |-> TRUE, tool |-> 1]>>]
                      ELSE [qry EXCEPT !.pc = "parse", !.content = content]
    /\ UNCHANGED <<llm_ok, tier_queries, query_http, notQuery>>

\* decide_tool: int(decision.content.strip()), the range check, the return;
\* run_query: tool = tool_map.get(tool_name)
DecideParse ==
    /\ qry.pc = "parse"
    /\ LET after == AfterParse(PyInt(Strip(qry.content)))
       IN  qry' = [qry EXCEPT !.pc = after.pc, !.decision = after.decision,
                              !.tool = IF after.decision # <<>> /\ ~after.decision[1].raised
                                       THEN ToolMapGet(after.decision[1].tool)
                                       ELSE <<>>]
    /\ UNCHANGED <<llm_ok, llm_calls, tier_queries, query_http, notQuery>>

\* str(e) of the exception decide_tool let through: the provider's error
\* when llm.invoke raised, else the ValueError of int(), which quotes the
\* router model's answer
DecideErrorText(q) == IF q.invoke_raised THEN {"provider_error"} ELSE {"router_content"}

\* an exception of decide_tool passes through run_query; app.query answers
\* 500 with detail=str(e)
QueryFail ==
    /\ qry.pc = "decide_raised"
    /\ qry' = [qry EXCEPT !.pc = "done"]
    /\ query_http' = <<[status |-> 500, answer |-> "<text of the exception>",
                        text_of |-> DecideErrorText(qry), tier |-> <<>>]>>
    /\ UNCHANGED <<llm_ok, llm_calls, tier_queries, notQuery>>

\* POST /query of a tier: the answer of rag.answer, or, when retrieval or
\* generation raised, HTTPException(500, detail="Query failed"); text_of is
\* the set of foreign texts the body carries
TierQueryResponse(ok) ==
    IF ok THEN [status |-> 200, detail |-> "", text_of |-> {"tier_answer"}]
    ELSE [status |-> 500, detail |-> "Query failed", text_of |-> {}]

\* post_to_level on a response that raise_for_status rejects:
\* RuntimeError(f"Request to {full_url} failed: {e}"), the tier's address
\* and the status line of the tier's error response
PostToLevelErrorText(resp) == {"tier_url", "tier_error_status"} \cup resp.text_of

\* tool._run: one POST /query to the tier of the tool; its answer goes
\* back as {"answer": ...}, its failure as 500 with detail=str(e)
PostQuery(ok) ==
    /\ qry.pc = "post"
    /\ tier_queries' = Append(tier_queries, qry.tool[1])
    /\ qry' = [qry EXCEPT !.pc = "done"]
    /\ query_http' = IF ok THEN <<[status |-> 200, answer |-> "<answer of the tier>",
                                   text_of |-> TierQueryResponse(ok).text_of,
                                   tier |-> <<TierQueryResponse(ok)>>]>>
                     ELSE <<[status |-> 500, answer |-> "Request to <url>/query failed: <e>",
                             text_of |-> PostToLevelErrorText(TierQueryResponse(ok)),
                             tier |-> <<TierQueryResponse(ok)>>]>>
    /\ UNCHANGED <<llm_ok, llm_calls, notQuery>>

QueryNext ==
    \/ \E level \in Levels : QueryReceive(level)
    \/ \E raises \in BOOLEAN, content \in Contents : DecideInvoke(raises, content)
    \/ DecideParse
    \/ QueryFail
    \/ \E ok \in BOOLEAN : PostQuery(ok)

SpecQuery == QueryInit /\ [][QueryNext]_vars

(***************************************************************************)
(* split_into_chunks (SpecChunk).  A text is a sequence of characters; the *)
(* k-th character of page p is the number 10 * p + k, so that every        *)
(* character of a document is told from every other, and the newline that  *)
(* "\n".join puts between two pieces is the number 0.                      *)
(***************************************************************************)
Newline == 0

PageText(p, n) == [k \in 1..n |-> 10 * p + k]

\* the documents: up to MaxPages pages of 1..MaxPageLen characters (a page
\* without text is left out by read_pdf_with_pages)
PageLens == SeqsUpTo(1..MaxPageLen, MaxPages)

PagesOf(lens) == [p \in 1..Len(lens) |-> [page |-> p, text |-> PageText(p, lens[p])]]

\* the configurations: chunk_size from 1, chunk_overlap from 0, among them
\* the ones with chunk_size <= chunk_overlap
SplitInputs ==
    {[pages |-> PagesOf(lens), chunk_size |-> cs, chunk_overlap |-> co] :
        lens \in PageLens, cs \in 1..MaxChunkSize, co \in 0..MaxChunkSize}

RECURSIVE Join(_)
\* "\n".join(t for _, t in buffer)
Join(buffer) ==
    IF buffer = <<>> THEN <<>>
    ELSE IF Len(buffer) = 1 THEN buffer[1].text
    ELSE buffer[1].text \o <<Newline>> \o Join(Tail(buffer))

\* content[-n:] for 0 < n
Suffix(content, n) ==
    IF n >= Len(content) THEN content
    ELSE SubSeq(content, Len(content) - n + 1, Len(content))

\* tokens[n:] for 0 <= n
DropFirst(tokens, n) ==
    IF n >= Len(tokens) THEN <<>> ELSE SubSeq(tokens, n + 1, Len(tokens))

NoChunks == [chunks |-> <<>>, buffer |-> <<>>, current_len |-> 0]

\* (a variant that carries the overlap over after every chunk)
FlushChunkCarry(st, chunk_overlap) ==
    IF st.buffer = <<>> THEN st
    ELSE LET content == Join(st.buffer)
             page_end == st.buffer[Len(st.buffer)].page
             emitted == Append(st.chunks,
                               [text |-> content,
                                page_start |-> st.buffer[1].page,
                                page_end |-> page_end])
         IN  IF chunk_overlap > 0
             THEN [chunks |-> emitted,
                   buffer |-> <<[page |-> page_end,
                                 text |-> Suffix(content, chunk_overlap)]>>,
                   current_len |-> Len(Suffix(content, chunk_overlap))]
             ELSE [chunks |-> emitted, buffer |-> <<>>, current_len |-> 0]

\* flush_chunk: the buffer joined by newlines becomes a chunk, and the last
\* chunk_overlap characters of it start the next buffer when the chunk is
\* longer than that
FlushChunk(st, chunk_overlap) ==
    IF st.buffer = <<>> THEN st
    ELSE LET content == Join(st.buffer)
             page_end == st.buffer[Len(st.buffer)].page
             emitted == Append(st.chunks,
                               [text |-> content,
                                page_start |-> st.buffer[1].page,
                                page_end |-> page_end])
         IN  IF chunk_overlap > 0 /\ Len(content) > chunk_overlap
             THEN [chunks |-> emitted,
                   buffer |-> <<[page |-> page_end,
                                 text |-> Suffix(content, chunk_overlap)]>>,
                   current_len |-> chunk_overlap]
             ELSE [chunks |-> emitted, buffer |-> <<>>, current_len |-> 0]

RECURSIVE TakeTokens(_, _, _, _, _)
\* the while loop over the text of one page
TakeTokens(st, page_num, tokens, chunk_size, chunk_overlap) ==
    IF tokens = <<>> THEN st
    ELSE LET remaining == chunk_size - st.current_len
         IN  IF remaining <= 0
             THEN TakeTokens(FlushChunk(st, chunk_overlap), page_num, tokens,
                             chunk_size, chunk_overlap)
             ELSE LET take == Prefix(tokens, remaining)
                      st1 == [st EXCEPT
                                 !.buffer = Append(@, [page |-> page_num, text |-> take]),
                                 !.current_len = @ + Len(take)]
                      st2 == IF st1.current_len >= chunk_size
                             THEN FlushChunk(st1, chunk_overlap) ELSE st1
                  IN  TakeTokens(st2, page_num, DropFirst(tokens, remaining),
                                 chunk_size, chunk_overlap)

RECURSIVE PagesLoop(_, _, _, _)
\* the for loop over the pages
PagesLoop(st, pages, chunk_size, chunk_overlap) ==
    IF pages = <<>> THEN st
    ELSE PagesLoop(TakeTokens(st, pages[1].page, pages[1].text,
                              chunk_size, chunk_overlap),
                   Tail(pages), chunk_size, chunk_overlap)

\* split_into_chunks: no check of its arguments, the loop, the last flush.
\* It has no raise statement: raised is FALSE for every input.
SplitIntoChunks(pages, chunk_size, chunk_overlap) ==
    LET st == PagesLoop(NoChunks, pages, chunk_size, chunk_overlap)
        last == IF st.current_len > 0 THEN FlushChunk(st, chunk_overlap) ELSE st
    IN  [raised |-> FALSE, chunks |-> last.chunks]

ChunkInit ==
    /\ TierStart /\ ConcIdle /\ OrchIdle /\ QueryIdle /\ CascStart
    /\ split_in \in SplitInputs
    /\ split_out = <<>>
    /\ split_run = NoRun

\* the call split_into_chunks(pages, chunk_size, chunk_overlap)
SplitCall ==
    /\ split_out = <<>>
    /\ split_out' = <<SplitIntoChunks(split_in.pages, split_in.chunk_size,
                                      split_in.chunk_overlap)>>
    /\ UNCHANGED <<split_in, split_run, tierVars, concVars, orchVars, queryVars, cascVars>>

ChunkNext == SplitCall

SpecChunk == ChunkInit /\ [][ChunkNext]_vars

(***************************************************************************)
(* split_into_chunks step by step (SpecLoop): one action per pass of the   *)
(* for statement and per iteration of the while loop.  flushes counts the  *)
(* calls of flush_chunk since tokens were last taken from the input.       *)
(***************************************************************************)
\* entry of the call: chunks = [], buffer = [], current_len = 0, and the
\* for statement about to look at the first page
LoopInit ==
    /\ TierStart /\ ConcIdle /\ OrchIdle /\ QueryIdle /\ CascStart
    /\ split_in \in SplitInputs
    /\ split_out = <<>>
    /\ split_run = [NoRun EXCEPT !.pc = "for", !.pages = split_in.pages]

notRun == <<split_in, tierVars, concVars, orchVars, queryVars, cascVars>>

\* for page_num, text in pages: tokens = text, or the loop is over
ForPage ==
    /\ split_run.pc = "for"
    /\ split_run' =
          IF split_run.pages = <<>> THEN [split_run EXCEPT !.pc = "last"]
          ELSE [split_run EXCEPT !.pc = "while",
                                 !.page_num = split_run.pages[1].page,
                                 !.tokens = split_run.pages[1].text,
                                 !.pages = Tail(@)]
    /\ UNCHANGED <<split_out, notRun>>

\* while tokens: false
WhileExit ==
    /\ split_run.pc = "while"
    /\ split_run.tokens = <<>>
    /\ split_run' = [split_run EXCEPT !.pc = "for"]
    /\ UNCHANGED <<split_out, notRun>>

\* an iteration with remaining <= 0: flush_chunk() and continue
FlushFull ==
    /\ split_run.pc = "while"
    /\ split_run.tokens # <<>>
    /\ split_in.chunk_size - split_run.st.current_len <= 0
    /\ split_run' = [split_run EXCEPT
                        !.st = FlushChunk(@, split_in.chunk_overlap),
                        !.flushes = @ + 1]
    /\ UNCHANGED <<split_out, notRun>>

\* an iteration with remaining > 0: take tokens[:remaining] into the
\* buffer, and flush_chunk() when the buffer is full
Take ==
    /\ split_run.pc = "while"
    /\ split_run.tokens # <<>>
    /\ LET remaining == split_in.chunk_size - split_run.st.current_len
           take == Prefix(split_run.tokens, remaining)
           st1 == [split_run.st EXCEPT
                      !.buffer = Append(@, [page |-> split_run.page_num, text |-> take]),
                      !.current_len = @ + Len(take)]
           full == st1.current_len >= split_in.chunk_size
       IN  /\ remaining > 0
           /\ split_run' = [split_run EXCEPT
                               !.st = IF full THEN FlushChunk(st1, split_in.chunk_overlap)
                                      ELSE st1,
                               !.tokens = DropFirst(@, remaining),
                               !.flushes = IF full THEN 1 ELSE 0]
    /\ UNCHANGED <<split_out, notRun>>

\* if current_len > 0: flush_chunk(); return chunks
LastFlush ==
    /\ split_run.pc = "last"
    /\ LET rest == split_run.st.current_len > 0
           last == IF rest THEN FlushChunk(split_run.st, split_in.chunk_overlap)
                   ELSE split_run.st
       IN  /\ split_run' = [split_run EXCEPT !.pc = "done", !.st = last,
                                              !.flushes = IF rest THEN @ + 1 ELSE @]
           /\ split_out' = <<[raised |-> FALSE, chunks |-> last.chunks]>>
    /\ UNCHANGED notRun

LoopNext == ForPage \/ WhileExit \/ FlushFull \/ Take \/ LastFlush

\* the interpreter runs the next statement of a call that has not returned
SpecLoop == LoopInit /\ [][LoopNext]_vars /\ WF_vars(LoopNext)

(***************************************************************************)
(* Properties of one tier (SpecTier).                                      *)
(***************************************************************************)
NextIdOf(keys) == IF keys = {} THEN 0 ELSE SetMax(keys) + 1

\* the vector ids and the metadata keys are the same set
Paired(s) == IndexIds(s.index) = DOMAIN s.id_to_meta

\* C1: at every observable point of a serving tier, the ids held by the
\* vector store are exactly the keys of id_to_meta, and next_id is the
\* largest key plus one (0 when there is no key).
C1_IndexInvariant ==
    up => /\ Paired(store)
          /\ store.next_id = NextIdOf(DOMAIN store.id_to_meta)

\* the ids an add call hands out to its metadata records
Block(e) == e.next_id_found .. (e.next_id_found + e.n_meta - 1)

\* C2: starting from an empty index, after any sequence of add calls,
\* next_id is the number of vectors added, each add gave its metadata
\* records the consecutive ids from the next_id it found, and no add gave
\* out an id that already had a metadata record.
C2_IdsNeverReused ==
    (up /\ from_empty) =>
        /\ store.next_id = SumSeq([i \in 1..Len(add_log) |-> add_log[i].n_vec])
        /\ \A i \in 1..Len(add_log) :
              /\ add_log[i].keys_after = add_log[i].keys_before \cup Block(add_log[i])
              /\ Block(add_log[i]) \cap add_log[i].keys_before = {}

\* the counter the metadata artifact records (none recorded: 0)
PersistedCounter(d) == IF d.meta_file = <<>> THEN 0 ELSE d.meta_file[1].next_id

\* C9: right after load(), next_id is the larger of the number of vectors
\* in the vector store and the persisted counter.
C9_LoadTakesLarger ==
    tier_op = "load" =>
        store.next_id = Max(Ntotal(store.index), PersistedCounter(disk))

\* C10: right after a load() that leaves the tier serving, no vector lacks
\* metadata and no metadata lacks a vector, whatever the artifacts were.
C10_LoadedIndexPaired ==
    tier_op = "load" => Paired(store)

\* C11: after an ingest whose add and save both went through, load() into
\* a fresh instance gives the vectors, the integer-keyed id_to_meta and the
\* next_id of the saving instance, and every search on the loaded instance
\* returns the hits of the saving instance in the same order.
C11_SaveLoadRoundTrip ==
    tier_op = "ingest_ok" =>
        /\ ~LoadRaises(disk)
        /\ Load(disk) = store
        /\ \A q \in Queries :
              Search(Load(disk), q, MaxTopK) = Search(store, q, MaxTopK)

\* a saved store of several adds, among them one of more than a batch
C11_Witness ==
    /\ tier_op = "ingest_ok"
    /\ Len(add_log) >= 2
    /\ Ntotal(store.index) > BatchSize
    /\ Search(Load(disk), "q_last", MaxTopK) # <<>>

\* C17: every embed call of an ingest gave build_index one vector for each
\* text it was given, also when the texts were more than one batch.
C17_EmbedOneRowPerText ==
    \A i \in 1..Len(add_log) : add_log[i].n_vec = add_log[i].n_meta

\* C18: a request whose embedding call fails leaves the store and both
\* artifacts as they were before build_index was called (as the reset left
\* them when the request asked for one).
C18_EmbedFailureLeavesIndex ==
    [][(ingests' = ingests + 1 /\ build_out' = "embed_failed") =>
          /\ store' = (IF reset_log' # <<>> THEN ResetStore ELSE store)
          /\ disk' = (IF reset_log' # <<>>
                      THEN ResetDisk(disk, reset_log'[1]) ELSE disk)]_vars

\* an embedding call has failed on a tier that holds vectors and artifacts
C18_Witness ==
    /\ build_out = "embed_failed"
    /\ reset_log = <<>>
    /\ Ntotal(store.index) > 0
    /\ disk.index_file # <<>>
    /\ disk.meta_file # <<>>

\* C24: an ingest request without force_rebuild hands store.add the chunks
\* of the files uploaded in that request and no others; chunks of files
\* of earlier requests are not added again.
C24_IngestAddsOnlyUploaded ==
    \A j \in 1..Len(add_log) :
        ~add_log[j].forced => add_log[j].n_meta = Len(IngestPdfs(add_log[j].files))

\* C25: an ingest request that fails leaves the store and both artifacts
\* exactly as they were before the request, also with force_rebuild.
C25_FailedIngestLeavesTier ==
    [][(ingests' = ingests + 1 /\ tier_op' = "ingest_failed") =>
          /\ store' = store
          /\ disk' = disk]_vars

\* the artifacts hold the ids of as many vectors as metadata records
DiskPaired(d) ==
    IndexIds(d.index_file) =
        (IF d.meta_file = <<>> THEN {}
         ELSE {DigitsVal(k) : k \in DOMAIN d.meta_file[1].id_to_meta})

\* C12: after a full reset the store has no vectors, no metadata and
\* next_id 0, neither artifact is on storage, and vectors and metadata stay
\* paired in memory and on storage, also when a removal failed.
C12_ResetClearsAll ==
    reset_log # <<>> =>
        /\ store = ResetStore
        /\ disk = NoDisk
        /\ Paired(store)
        /\ DiskPaired(disk)

\* C13: a search returns at most top_k hits in descending order of score,
\* nothing from an index that is None or empty, no hit whose id lacks a
\* metadata record, and min(top_k, number of vectors) hits when every
\* vector id has a record.
C13_SearchContract ==
    search_out # <<>> =>
        LET hits == search_out[1].hits
            top_k == search_out[1].top_k
        IN  /\ Len(hits) <= top_k
            /\ \A j \in 1..(Len(hits) - 1) : hits[j].score >= hits[j + 1].score
            /\ Ntotal(store.index) = 0 => hits = <<>>
            /\ \A j \in 1..Len(hits) :
                  /\ hits[j].id \in DOMAIN store.id_to_meta
                  /\ hits[j].id \in IndexIds(store.index)
                  /\ hits[j].meta = <<store.id_to_meta[hits[j].id]>>
            /\ \A i, j \in 1..Len(hits) : i # j => hits[i].id # hits[j].id
            /\ IndexIds(store.index) \subseteq DOMAIN store.id_to_meta =>
                  Len(hits) = Min(top_k, Ntotal(store.index))

\* a search that left out an id without a metadata record
C13_Witness ==
    /\ search_out # <<>>
    /\ Ntotal(store.index) >= search_out[1].top_k
    /\ Len(search_out[1].hits) < search_out[1].top_k
    /\ Len(search_out[1].hits) >= 1

(***************************************************************************)
(* Properties of split_into_chunks (SpecChunk).                            *)
(***************************************************************************)
\* the call has been made with 0 < chunk_overlap < chunk_size
SplitDone ==
    /\ split_out # <<>>
    /\ 0 < split_in.chunk_overlap
    /\ split_in.chunk_overlap < split_in.chunk_size

\* C14: for 0 < chunk_overlap < chunk_size no emitted chunk is longer than
\* chunk_size.
C14_ChunkWithinSize ==
    SplitDone =>
        \A j \in 1..Len(split_out[1].chunks) :
            Len(split_out[1].chunks[j].text) <= split_in.chunk_size

\* the text of chunk j without its leading overlap characters
NonOverlap(chunks, j, chunk_overlap) ==
    IF j = 1 THEN chunks[j].text ELSE DropFirst(chunks[j].text, chunk_overlap)

\* C15: for 0 < chunk_overlap < chunk_size the chunks without their leading
\* overlap, put together in order, are the page texts put together.
C15_ChunksReconstructText ==
    SplitDone =>
        Flatten([j \in 1..Len(split_out[1].chunks) |->
                    NonOverlap(split_out[1].chunks, j, split_in.chunk_overlap)])
          = Flatten([p \in 1..Len(split_in.pages) |-> split_in.pages[p].text])

\* C16: a call with chunk_size <= chunk_overlap ends in a configuration
\* error and emits no chunk.
C16_BadConfigRejected ==
    (split_out # <<>> /\ split_in.chunk_size <= split_in.chunk_overlap) =>
        /\ split_out[1].raised
        /\ split_out[1].chunks = <<>>

\* the characters of the input (no Newline of a join) in a text
InputChars(text) == {text[k] : k \in 1..Len(text)} \ {Newline}

C27_SplitTerminates ==
    /\ [](split_run.flushes <= 2)
    /\ <>(split_run.pc = "done")

\* a call with chunk_overlap >= chunk_size in which flush_chunk has just
\* run twice in a row
C27_Witness ==
    /\ split_in.chunk_overlap >= split_in.chunk_size
    /\ split_run.pc = "while"
    /\ split_run.flushes = 2

(***************************************************************************)
(* Properties of two racing ingest requests (SpecConc).                    *)
(***************************************************************************)
ConcDone == \A r \in Reqs : req[r].pc = "done"

\* the ids request r gave its metadata records
ReqBlock(r) == req[r].start_id .. (req[r].start_id + Len(req[r].chunks) - 1)

\* C3: when two ingest requests on one tier have both finished, whatever
\* the interleaving, their adds got disjoint id blocks, next_id is the
\* number of vectors added, and every vector id carries the metadata of
\* the chunk its vector was embedded from.
C3_ConcurrentAddsSerialized ==
    ConcDone =>
        /\ \A r1, r2 \in Reqs : r1 # r2 => ReqBlock(r1) \cap ReqBlock(r2) = {}
        /\ store.next_id = SumSeq([r \in Reqs |-> Len(req[r].vectors)])
        /\ \A id \in IndexIds(store.index) :
              /\ id \in DOMAIN store.id_to_meta
              /\ store.id_to_meta[id] = store.index[1][id + 1]

(***************************************************************************)
(* Properties of the orchestrator's ingestion (SpecIngest).                *)
(***************************************************************************)
IsPost(c, level) == c.kind = "post" /\ c.level = level

IsCompress(c, level_from) == c.kind = "compress" /\ c.from = level_from

\* C4: within one ingestion call the level1 request is issued only after
\* the level2 request returned successfully, the level0 request only after
\* the level1 request returned successfully, no request goes back to an
\* earlier tier, and every text compressed for level0 is the output of a
\* level2-to-level1 compression of the same call.
C4_TiersInOrder ==
    /\ \A j \in 1..Len(calls) :
          /\ IsPost(calls[j], 1) =>
                \E k \in 1..(j - 1) : IsPost(calls[k], 2) /\ calls[k].ok
          /\ IsPost(calls[j], 0) =>
                \E k \in 1..(j - 1) : IsPost(calls[k], 1) /\ calls[k].ok
          /\ IsCompress(calls[j], "level1") =>
                \E k \in 1..(j - 1) :
                    /\ IsCompress(calls[k], "level2")
                    /\ calls[k].ok
                    /\ calls[k].output = <<calls[j].input>>
    /\ \A j, k \in 1..Len(calls) :
          (j < k /\ calls[j].kind = "post" /\ calls[k].kind = "post")
              => calls[j].level > calls[k].level

\* a call on two documents that reached the level0 request
C4_Witness ==
    /\ Len(orch.paths) = 2
    /\ \E j \in 1..Len(calls) : IsPost(calls[j], 0) /\ calls[j].ok
    /\ ingest_http # <<>>

\* the tier a failed step belongs to: the tier of a failed request, the
\* tier a failed compression or PDF step was preparing
FailedTier(c) ==
    IF c.kind = "post" THEN c.level
    ELSE IF c.kind = "pdf_to_text" THEN 1
    ELSE IF c.kind = "compress" THEN (IF c.to = "level1" THEN 1 ELSE 0)
    ELSE IF c.path.kind = "summary_l2_to_l1" THEN 1 ELSE 0

\* C5: when a step of the ingestion call fails, no tier request follows it,
\* and the answer of the orchestrator's /ingest is a failure (not the
\* "completed" answer) that names the tier that failed.
C5_FailureAbortsAndSurfaces ==
    \A j \in 1..Len(calls) :
        ~calls[j].ok =>
            /\ \A k \in (j + 1)..Len(calls) : calls[k].kind # "post"
            /\ ingest_http # <<>> =>
                  /\ ingest_http[1].status # 200
                  /\ ingest_http[1].result # <<>>
                  /\ ingest_http[1].result[1].e # <<>>
                  /\ ingest_http[1].result[1].e[1].names_level = <<FailedTier(calls[j])>>

\* Python's round(num / den): to the nearest integer, a half to the even one
RoundHalfEven(num, den) ==
    LET q == num \div den
        r == num % den
    IN  IF 2 * r > den THEN q + 1
        ELSE IF 2 * r < den THEN q
        ELSE IF q % 2 = 0 THEN q ELSE q + 1

\* the configured ratio of a compression step
RatioOf(c) == IF c.from = "level2" THEN Ratio2To1 ELSE Ratio1To0

\* C19: the target handed to every compress call is the length of its
\* source text times the ratio of the step, rounded to the nearest integer.
C19_TargetIsRounded ==
    \A j \in 1..Len(calls) :
        calls[j].kind = "compress" =>
            calls[j].target =
                RoundHalfEven(calls[j].input.len * RatioOf(calls[j])[1],
                              RatioOf(calls[j])[2])

\* C20: a compress call that returns gives a non-empty text for a non-empty
\* input, whatever the generation service answered.
C20_CompressNeverEmpty ==
    \A j \in 1..Len(calls) :
        (calls[j].kind = "compress" /\ calls[j].ok /\ calls[j].input.len > 0) =>
            calls[j].output[1].len > 0

\* the compress calls of the ingestion call that read level_from, in order
CompressCalls(level_from) == SelectSeq(calls, LAMBDA c : IsCompress(c, level_from))

\* the ingestion call went through: the request to level0 returned
CascadeCompleted == \E j \in 1..Len(calls) : IsPost(calls[j], 0) /\ calls[j].ok

\* target is len times ratio, to within one character (whatever the
\* rounding)
NearProduct(target, len, ratio) ==
    /\ target * ratio[2] > len * ratio[1] - ratio[2]
    /\ target * ratio[2] < len * ratio[1] + ratio[2]

\* C23 as stated: a completed ingestion call on two documents made exactly
\* one compress call for the summary tier, targeted at the combined text
\* length times ratio_2_to_1, and exactly one for the digest tier, targeted
\* at the summary length times ratio_1_to_0.
C23_OneCompressPerTier ==
    (CascadeCompleted /\ Len(orch.paths) = 2) =>
        /\ Len(CompressCalls("level2")) = 1
        /\ NearProduct(CompressCalls("level2")[1].target,
                       DocLen[orch.paths[1]] + DocLen[orch.paths[2]], Ratio2To1)
        /\ Len(CompressCalls("level1")) = 1
        /\ NearProduct(CompressCalls("level1")[1].target,
                       CompressCalls("level2")[1].output[1].len, Ratio1To0)

\* C23 amended: a completed ingestion call on two documents made exactly
\* one compress call per document for the summary tier, on that document's
\* text and targeted at its length times ratio_2_to_1, and exactly one per
\* document for the digest tier, on that document's summary and targeted at
\* the summary's length times ratio_1_to_0.
C23_OneCompressPerDocument ==
    (CascadeCompleted /\ Len(orch.paths) = 2) =>
        LET c2 == CompressCalls("level2")
            c1 == CompressCalls("level1")
        IN  /\ Len(c2) = 2
            /\ Len(c1) = 2
            /\ \A k \in 1..2 :
                  /\ c2[k].ok
                  /\ c2[k].input = ExtractedText(orch.paths[k])
                  /\ NearProduct(c2[k].target, DocLen[orch.paths[k]], Ratio2To1)
                  /\ c1[k].ok
                  /\ c1[k].input = c2[k].output[1]
                  /\ NearProduct(c1[k].target, c2[k].output[1].len, Ratio1To0)

\* a completed ingestion call on two documents whose summaries differ in
\* length
C23_Witness ==
    /\ CascadeCompleted
    /\ Len(orch.paths) = 2
    /\ Len(CompressCalls("level2")) = 2
    /\ CompressCalls("level2")[1].output[1].len # CompressCalls("level2")[2].output[1].len

(***************************************************************************)
(* Properties of the tiers behind the orchestrator (SpecCascade).          *)
(***************************************************************************)
\* f names a document a caller gave the orchestrator, not a summary
IsOriginal(f) == f.kind = "upload" /\ f \in uploaded

Decided == qry.decision # <<>>

\* the cases in which the router is to fall back to the summary tier
FallbackCase ==
    \/ qry.invoke_raised
    \/ PyInt(Strip(qry.content)) = <<>>
    \/ PyInt(Strip(qry.content))[1] \notin {0, 1, 2}

\* C6: route always ends by returning one of the tiers 0, 1, 2, never by
\* raising, and returns tier 1 whenever the generation call raised, its
\* answer is no integer, or the integer is not 0, 1 or 2.
C6_RouterFallsBack ==
    Decided =>
        /\ ~qry.decision[1].raised
        /\ qry.decision[1].tool \in {0, 1, 2}
        /\ FallbackCase => qry.decision[1].tool = 1

\* C7: an answered query with an explicit tier 0, 1 or 2 called the
\* router's generation service never and sent exactly one request, to that
\* tier; an answered query without a tier went through the router and sent
\* exactly one request, to the tier the router returned.
C7_OneRequestToChosenTier ==
    query_http # <<>> =>
        /\ qry.level \in {<<0>>, <<1>>, <<2>>} =>
              /\ llm_calls = 0
              /\ tier_queries = qry.level
        /\ qry.level = <<>> =>
              /\ Decided
              /\ ~qry.decision[1].raised
              /\ tier_queries = <<qry.decision[1].tool>>

\* C8: a routing decision that has ended made exactly one call to the
\* generation service, and no tier is sent a request before the decision
\* has ended.
C8_SingleShotDecision ==
    /\ Decided => llm_calls = 1
    /\ qry.pc \in {"decide", "parse", "decide_raised", "post"} => tier_queries = <<>>
    /\ (qry.level = <<>> /\ ~Decided) => tier_queries = <<>>

\* a decision that ended on an answer that is no integer
C8_Witness ==
    /\ Decided
    /\ ~qry.invoke_raised
    /\ qry.content # <<>>
    /\ PyInt(Strip(qry.content)) = <<>>

\* the tier answered the request of this query with an error
TierFailed == query_http # <<>> /\ query_http[1].tier # <<>> /\ query_http[1].tier[1].status # 200

\* C22: a query whose generation call failed (the router's or the tier's)
\* is answered with a failure that carries no foreign text, by the tier
\* and by the orchestrator: no text of the provider's or the tier's error.
C22_GenerationFailureIsGeneric ==
    query_http # <<>> =>
        /\ TierFailed =>
              /\ query_http[1].tier[1].text_of = {}
              /\ query_http[1].status = 500
              /\ query_http[1].text_of = {}
        /\ qry.invoke_raised =>
              /\ query_http[1].status = 500
              /\ query_http[1].text_of = {}

\* C26: when the router's language model failed to initialise, an
\* answered query was still sent to a tier: to tier 1 when no level was
\* given, to the given tier when the level is 0, 1 or 2.
C26_UninitialisedRouterStillDelegates ==
    (~llm_ok /\ query_http # <<>>) =>
        /\ qry.level \in {<<0>>, <<1>>, <<2>>} => tier_queries = qry.level
        /\ qry.level = <<>> => tier_queries = <<1>>

====
